---- MODULE Spec2Model ----
(***************************************************************************)
(* Holo, the episode discussion bot: the "episode" module                  *)
(* (module_find_episodes.main and _process_new_episode), the Store calls   *)
(* it makes (data/database.py) and the run wrapper (holo.main).            *)
(*                                                                         *)
(* One invocation of the module is one reconciliation cycle.  A cycle is   *)
(* modelled in the steps at which it talks to the outside world: the call  *)
(* to a service handler, the read of the Store that classifies a           *)
(* candidate, the call to reddit that publishes it, and the write of the   *)
(* Episode row.  Inside one invocation the steps follow each other as in   *)
(* the code; they are separate so that a second invocation, a crash or a   *)
(* failing Store write can fall between them.                              *)
(*                                                                         *)
(* Episode.is_live is declared as a property (data/models.py:89) and read  *)
(* with call syntax at module_find_episodes.py:120,122; the model takes    *)
(* the value the property computes (now >= date) as the candidate's        *)
(* "live" flag.                                                            *)
(***************************************************************************)
EXTENDS Integers, Sequences, FiniteSets, TLC

VARIABLES
    episodes,   \* Episodes table: show -> set of episode numbers (UNIQUE(show, episode))
    delayed,    \* Shows.delayed: show -> BOOLEAN
    enabled,    \* Shows.enabled: show -> BOOLEAN
    published,  \* reddit: show -> number -> how many posts were submitted successfully
    persisted,  \* per show, the numbers the episode module inserted, in insertion order
    cyc,        \* per invocation (worker): where it is in main/_process_new_episode
    ncycles,    \* how many invocations have been started
    feed,       \* what the sources answer: NoFeed (anything), or a fixed report
    lastFail,   \* per show, the last candidate whose post was not submitted, and its stream
    orphans,    \* (show, number) posted on reddit whose Episode row was never written
    gapped,     \* (show, number) that some candidate was held back for as a gap
    clean,      \* the running cycle published or had already seen every candidate so far
    prevClean,  \* the same, for the cycle before it
    calc        \* a call of one of the pure functions: its arguments and what it returned

vars == <<episodes, delayed, enabled, published, persisted, cyc, ncycles, feed,
          lastFail, orphans, gapped, clean, prevClean, calc>>

(***************************************************************************)
(* Bounds of the model.                                                    *)
(***************************************************************************)
MaxNum == 3        \* sources report native episode numbers 1..MaxNum
MaxCands == 2      \* at most this many candidates per stream and report
MaxCycles == 2     \* invocations of the module in one behaviour
MaxOffset == 2     \* stream offsets run from -MaxOffset to MaxOffset
MaxTitle == 3      \* pieces in the title of a feed item
MaxAdds == 4       \* calls of add_episode followed row by row
MaxRows == 28      \* Episode rows of a show before its new episode is posted
MaxDocs == 3       \* documents in an edit file
MaxField == 2      \* characters in the episode number field of a feed entry
MaxSuffix == 3     \* characters after the address in a stream URL

Shows == {1, 2}
Workers == {1, 2}

\* get_latest_episode returns None when the show has no Episode row
None == -1

(***************************************************************************)
(* Data model (data/models.py).                                            *)
(***************************************************************************)
\* Services table, enabled rows in id order; service 2 has a generic handler
enabled_services == <<1, 2>>

is_generic(service) == service = 2

\* Streams table: show 1 is numbered one higher on service 1 than internally
\* and displayed two higher
DbStreams ==
    { [id |-> 1, service |-> 1, show |-> 1, remote_offset |-> 1, display_offset |-> 2, active |-> TRUE],
      [id |-> 2, service |-> 1, show |-> 2, remote_offset |-> 0, display_offset |-> 1, active |-> TRUE] }

from_show(show) ==
    [id |-> 0 - show, service |-> -1, show |-> show, remote_offset |-> 0,
     display_offset |-> 0, active |-> TRUE]

AllStreams == DbStreams \cup { from_show(s) : s \in Shows }

StreamById(id) == CHOOSE st \in AllStreams : st.id = id

\* copy.copy(episode): a new object with the fields of the old one
copy(episode) == episode

\* "e = episode" for "e = copy.copy(episode)": the caller's object is changed
to_internal_episode_in_place(stream, episode) ==
    LET e == [episode EXCEPT !.number = @ - stream.remote_offset]
    IN  [arg |-> e, ret |-> e]

\* Stream.to_internal_episode: ret is the object returned, arg the caller's
\* object as the call leaves it
to_internal_episode(stream, episode) ==
    LET e == copy(episode)
    IN  [arg |-> episode, ret |-> [e EXCEPT !.number = @ - stream.remote_offset]]

\* the display offset is not applied
to_display_episode_same(stream, episode) == [arg |-> episode, ret |-> copy(episode)]

\* Stream.to_display_episode
to_display_episode(stream, episode) ==
    LET e == copy(episode)
    IN  [arg |-> episode, ret |-> [e EXCEPT !.number = @ + stream.display_offset]]

(***************************************************************************)
(* Store reads (data/database.py).                                         *)
(***************************************************************************)
Max(S) == CHOOSE x \in S : \A y \in S : y <= x

Min(S) == CHOOSE x \in S : \A y \in S : x <= y

\* ORDER BY episode ASC: the oldest row instead of the latest
get_latest_episode_oldest(show) == IF episodes[show] = {} THEN None ELSE Min(episodes[show])

get_latest_episode(show) == IF episodes[show] = {} THEN None ELSE Max(episodes[show])

get_streams(service) ==
    { st \in DbStreams : st.service = service /\ st.active /\ enabled[st.show] }

\* get_shows(missing_stream=True), the call of the commented-out line 61: the
\* enabled shows with no active stream on an enabled service
get_shows_missing_stream ==
    { s \in Shows :
        /\ enabled[s]
        /\ ~\E st \in DbStreams :
              /\ st.show = s
              /\ st.active
              /\ \E i \in 1..Len(enabled_services) : enabled_services[i] = st.service }

\* get_shows(missing_stream=False) falls through to the last branch: every enabled show
get_shows_all == { s \in Shows : enabled[s] }

\* "WHERE delayed = 1" without "AND enabled = ?"
get_shows_delayed_any == { s \in Shows : delayed[s] }

\* get_shows(delayed=True): enabled defaults to True
get_shows_delayed == { s \in Shows : delayed[s] /\ enabled[s] }

other_streams == { from_show(s) : s \in get_shows_all \cup get_shows_delayed }

\* sorted(get_episodes(show)) as a sequence
RECURSIVE SortedSeq(_)
SortedSeq(S) == IF S = {} THEN <<>> ELSE <<Min(S)>> \o SortedSeq(S \ {Min(S)})

edit_history_length == 26

LastN(seq, n) == IF Len(seq) <= n THEN seq ELSE SubSeq(seq, Len(seq) - n + 1, Len(seq))

\* editing_episodes[:edit_history_length]: the oldest rows instead of the latest
editing_episodes_oldest(rows) ==
    LET seq == SortedSeq(rows)
    IN  IF Len(seq) <= edit_history_length THEN seq ELSE SubSeq(seq, 1, edit_history_length)

\* lines 168-172: the rows of the show sorted by number, the last
\* edit_history_length of them
editing_episodes(rows) == LastN(SortedSeq(rows), edit_history_length)

(***************************************************************************)
(* What the sources can report.                                            *)
(***************************************************************************)
Candidates == [number : 1..MaxNum, live : BOOLEAN]

\* the reports about show 1: up to MaxCands candidates with different numbers
CandSets ==
    { S \in SUBSET Candidates :
        /\ Cardinality(S) <= MaxCands
        /\ \A a, b \in S : a.number = b.number => a = b }

\* the reports about show 2: nothing, or its first episode
FewCandSets == { {}, {[number |-> 1, live |-> TRUE]} }

NoFeed == [kind |-> "any"]

\* no pure function is being followed
NoCalc == [op |-> "none"]

\* the candidate with the least number: sorted(episodes, key=lambda e: e.number)[0]
FirstCand(S) == CHOOSE c \in S : \A d \in S : c.number <= d.number

(***************************************************************************)
(* The invocation's own state.                                             *)
(***************************************************************************)
Idle ==
    [pc |-> "idle", pass |-> "direct", svc |-> 1, todo |-> {}, stream |-> 0,
     show_delayed |-> FALSE, pending |-> {}, res |-> "none", number |-> 0,
     latest |-> None, already_seen |-> FALSE, episode_number_gap |-> FALSE,
     edited |-> <<>>, visited |-> {}, exc |-> "none", native |-> 0, display |-> 0,
     db_exc |-> FALSE]

Running(w) == cyc[w].pc \notin {"idle", "done", "aborted", "crashed"}

\* the Episodes rows a cycle can find: none, the rows of earlier cycles, or an
\* episode 0 posted by hand (module_create_threads takes any number)
InitEpisodes == { {}, {0}, {1}, {1, 2} }

InitStore ==
    /\ episodes \in { f \in [Shows -> InitEpisodes] : f[2] \in {{}, {1}} }
    /\ \E b \in BOOLEAN, e \in BOOLEAN :
         /\ delayed = [s \in Shows |-> IF s = 1 THEN b ELSE b /\ e]
         /\ enabled = [s \in Shows |-> ~b \/ s = 1]

Init ==
    /\ InitStore
    /\ published = [s \in Shows |-> [n \in 1..MaxNum |-> IF n \in episodes[s] THEN 1 ELSE 0]]
    /\ persisted = [s \in Shows |-> <<>>]
    /\ cyc = [w \in Workers |-> Idle]
    /\ ncycles = 0
    /\ feed = NoFeed
    /\ lastFail = [s \in Shows |-> [number |-> 0, latest |-> None, cycle |-> 0, stream |-> 0]]
    /\ orphans = {}
    /\ gapped = {}
    /\ clean = TRUE
    /\ prevClean = TRUE
    /\ calc = NoCalc

\* the store and the history are left alone
StoreUnchanged == UNCHANGED <<episodes, delayed, enabled, published, persisted, orphans>>

HistUnchanged == UNCHANGED <<ncycles, feed, calc, lastFail, gapped, clean, prevClean>>

Set(w, rec) == cyc' = [cyc EXCEPT ![w] = rec]

(***************************************************************************)
(* module_find_episodes.main: the loops over services and streams.         *)
(***************************************************************************)
\* the service loop moves on: the next service of this pass, then the generic
\* pass, then the end of main
NextService(c) ==
    LET base == [c EXCEPT !.todo = {}, !.stream = 0, !.pending = {}, !.show_delayed = FALSE,
                          !.number = 0, !.latest = None, !.already_seen = FALSE,
                          !.episode_number_gap = FALSE, !.edited = <<>>, !.res = "none",
                          !.native = 0, !.display = 0, !.db_exc = FALSE]
    IN  IF c.svc < Len(enabled_services)
        THEN [base EXCEPT !.pc = "fetch", !.svc = c.svc + 1]
        ELSE IF c.pass = "direct"
             THEN [base EXCEPT !.pc = "fetch", !.pass = "generic", !.svc = 1]
             ELSE [base EXCEPT !.pc = "done"]

\* the episode loop moves on: the next candidate of the stream, or the next stream
AfterEpisode(c) ==
    IF c.pending = {} THEN [c EXCEPT !.pc = "streams"]
    ELSE [c EXCEPT !.pc = "episodes"]

\* the streams handed to the handler in this pass
StreamsFor(c) ==
    IF c.pass = "direct" THEN get_streams(enabled_services[c.svc]) ELSE other_streams

\* the exception goes up to holo.main, which logs it, rolls back and closes
except_IOError_missed(c) == [c EXCEPT !.pc = "aborted", !.exc = "IOError"]

\* "except IOError" of the service loop: the error is logged, the loop goes on
except_IOError(c) == [NextService(c) EXCEPT !.exc = "IOError"]

\* holo.main starts the module; invocations do not overlap
StartCycle(w) ==
    /\ ncycles < MaxCycles
    /\ \A v \in Workers : ~Running(v)
    /\ Set(w, [Idle EXCEPT !.pc = "fetch"])
    /\ ncycles' = ncycles + 1
    /\ prevClean' = clean
    /\ clean' = TRUE
    /\ StoreUnchanged
    /\ UNCHANGED <<feed, calc, lastFail, gapped>>

\* second loop, a service whose handler is not generic: nothing is called
SkipNotGeneric(w) ==
    LET c == cyc[w] IN
    /\ c.pc = "fetch"
    /\ c.pass = "generic"
    /\ ~is_generic(enabled_services[c.svc])
    /\ Set(w, NextService(c))
    /\ StoreUnchanged
    /\ HistUnchanged

Called(c) ==
    /\ c.pc = "fetch"
    /\ c.pass = "generic" => is_generic(enabled_services[c.svc])

\* service_handler.get_recent_episodes returns a report for the streams it was given
FetchOk(w) ==
    LET c == cyc[w] IN
    /\ Called(c)
    /\ Set(w, [c EXCEPT !.pc = "streams",
                        !.todo = { st.id : st \in StreamsFor(c) },
                        !.visited = @ \cup {<<c.pass, c.svc>>}])
    /\ StoreUnchanged
    /\ HistUnchanged

\* get_recent_episodes raises IOError: "except IOError" logs it, the loop goes on
FetchIOError(w) ==
    LET c == cyc[w] IN
    /\ Called(c)
    /\ feed = NoFeed
    /\ Set(w, except_IOError([c EXCEPT !.visited = @ \cup {<<c.pass, c.svc>>}]))
    /\ clean' = FALSE
    /\ StoreUnchanged
    /\ UNCHANGED <<ncycles, feed, calc, lastFail, gapped, prevClean>>

\* get_recent_episodes raises anything else: it leaves main, holo.main logs it,
\* rolls back and closes
FetchException(w) ==
    LET c == cyc[w] IN
    /\ Called(c)
    /\ feed = NoFeed
    /\ Set(w, [c EXCEPT !.pc = "aborted", !.visited = @ \cup {<<c.pass, c.svc>>}, !.exc = "other"])
    /\ clean' = FALSE
    /\ StoreUnchanged
    /\ UNCHANGED <<ncycles, feed, calc, lastFail, gapped, prevClean>>

\* the report has no stream left
EndService(w) ==
    LET c == cyc[w] IN
    /\ c.pc = "streams"
    /\ c.todo = {}
    /\ Set(w, NextService(c))
    /\ StoreUnchanged
    /\ HistUnchanged

\* what the report holds for a stream
Reported(c, id) ==
    IF feed # NoFeed THEN { feed.report[<<c.pass, c.svc, id>>] }
    ELSE IF StreamById(id).show = 1 THEN CandSets ELSE FewCandSets

\* for stream, episodes in recent_episodes.items(): the show is read, a disabled
\* show and an empty list are skipped
NextStream(w) ==
    LET c == cyc[w] IN
    /\ c.pc = "streams"
    /\ \E id \in c.todo : \E eps \in Reported(c, id) :
         LET show == StreamById(id).show IN
         IF ~enabled[show] \/ eps = {}
         THEN Set(w, [c EXCEPT !.todo = @ \ {id}])
         ELSE Set(w, [c EXCEPT !.pc = "episodes", !.todo = @ \ {id}, !.stream = id,
                               !.show_delayed = delayed[show], !.pending = eps,
                               !.res = "none"])
    /\ StoreUnchanged
    /\ HistUnchanged

(***************************************************************************)
(* module_find_episodes._process_new_episode.                              *)
(***************************************************************************)
\* ">" for ">=": the latest episode itself is not seen
already_seen_strict(latest, number) == latest # None /\ latest > number

\* lines 133-135
already_seen(latest, number) == latest # None /\ latest >= number

\* the gap test dropped
episode_number_gap_never(latest, number) == FALSE

\* the gap test without "latest_episode.number > 0"
episode_number_gap_from_zero(latest, number) == latest # None /\ number > latest + 1

\* the gap test off by one
episode_number_gap_late(latest, number) ==
    latest # None /\ latest > 0 /\ number > latest + 2

\* "latest_episode.number > 1" for "> 0"
episode_number_gap_above_one(latest, number) ==
    latest # None /\ latest > 1 /\ number > latest + 1

\* lines 136-140
episode_number_gap(latest, number) ==
    latest # None /\ latest > 0 /\ number > latest + 1

\* "if not already_seen:" for line 157
is_new_despite_gap(latest, number) == ~already_seen(latest, number)

\* line 157
is_new(latest, number) ==
    ~already_seen(latest, number) /\ ~episode_number_gap(latest, number)

\* db_error_default(default_value): an exception of the query is logged and the
\* default value returned in place of the result
db_error_default(default_value, result, raised) == IF raised THEN default_value ELSE result

\* lines 122-157 for the stream's next candidate, in ascending number order: the
\* freshness test, the translation to the internal number, the read of the
\* latest episode and the two flags
Classify(c, raised) ==
    LET episode == FirstCand(c.pending)
        st == StreamById(c.stream)
        call == to_internal_episode(st, episode)
        number == call.ret.number
        latest == db_error_default(None, get_latest_episode(st.show), raised)
        d == [c EXCEPT !.pending = @ \ {episode}, !.edited = <<>>, !.number = number,
                       !.latest = None, !.already_seen = FALSE,
                       !.episode_number_gap = FALSE, !.native = call.arg.number,
                       !.display = 0, !.db_exc = FALSE]
    IN  IF ~episode.live THEN AfterEpisode([d EXCEPT !.res = "notlive", !.number = 0, !.native = episode.number])
        ELSE IF number <= 0 THEN AfterEpisode([d EXCEPT !.res = "invalid"])
        ELSE LET f == [d EXCEPT !.latest = latest,
                                !.already_seen = already_seen(latest, number),
                                !.episode_number_gap = episode_number_gap(latest, number),
                                !.db_exc = raised]
             IN  IF is_new(latest, number)
                 THEN [f EXCEPT !.pc = "publish", !.res = "new"]
                 ELSE AfterEpisode([f EXCEPT !.res = "skip"])

ProcessEpisode(w) ==
    LET c == cyc[w] IN
    /\ c.pc = "episodes"
    /\ Set(w, Classify(c, FALSE))
    /\ clean' = (clean /\ (cyc'[w].res = "new" \/ cyc'[w].already_seen))
    /\ gapped' = IF cyc'[w].episode_number_gap
                 THEN gapped \cup {<<StreamById(c.stream).show, cyc'[w].number>>}
                 ELSE gapped
    /\ StoreUnchanged
    /\ UNCHANGED <<ncycles, feed, calc, lastFail, prevClean>>

ShowOf(c) == StreamById(c.stream).show

\* the INSERT is not committed
add_episode_dropped(show, number) == episodes

\* db.add_episode inserts the row and commits
add_episode(show, number) == [episodes EXCEPT ![show] = @ \cup {number}]

\* the row is written although no post was submitted
not_submitted_adds(show, number) == add_episode(show, number)

\* lines 182-183, post_url is None: "Episode not submitted" is logged, the
\* Episodes table stays as it is
not_submitted(show, number) == episodes

\* _create_reddit_post, line 200: the number the post is written with
display_number(c) ==
    to_display_episode(StreamById(c.stream), [number |-> c.number, live |-> TRUE]).ret.number

\* _create_reddit_post returns the post's link: reddit holds one more post
PublishOk(w) ==
    LET c == cyc[w] IN
    /\ c.pc = "publish"
    /\ published' = [published EXCEPT ![ShowOf(c)][c.number] = @ + 1]
    /\ Set(w, [c EXCEPT !.pc = "persist", !.display = display_number(c)])
    /\ UNCHANGED <<episodes, delayed, enabled, persisted, orphans>>
    /\ HistUnchanged

\* _create_reddit_post returns None (debug, no subreddit, reddit refused):
\* "Episode not submitted", and _process_new_episode returns
PublishNone(w) ==
    LET c == cyc[w] IN
    /\ c.pc = "publish"
    /\ Set(w, AfterEpisode([c EXCEPT !.res = "failed"]))
    /\ lastFail' = [lastFail EXCEPT ![ShowOf(c)] =
                       [number |-> c.number, latest |-> c.latest, cycle |-> ncycles,
                        stream |-> c.stream]]
    /\ clean' = FALSE
    /\ episodes' = not_submitted(ShowOf(c), c.number)
    /\ UNCHANGED <<delayed, enabled, published, persisted, orphans>>
    /\ UNCHANGED <<ncycles, feed, calc, gapped, prevClean>>

\* building the post raises IOError: it leaves _process_new_episode and is caught
\* by the service loop's "except IOError", which ends this service
PublishIOError(w) ==
    LET c == cyc[w] IN
    /\ c.pc = "publish"
    /\ feed = NoFeed
    /\ Set(w, except_IOError(c))
    /\ lastFail' = [lastFail EXCEPT ![ShowOf(c)] =
                       [number |-> c.number, latest |-> c.latest, cycle |-> ncycles,
                        stream |-> c.stream]]
    /\ clean' = FALSE
    /\ StoreUnchanged
    /\ UNCHANGED <<ncycles, feed, calc, gapped, prevClean>>

\* building the post raises anything else: it leaves main
PublishException(w) ==
    LET c == cyc[w] IN
    /\ c.pc = "publish"
    /\ feed = NoFeed
    /\ Set(w, [c EXCEPT !.pc = "aborted", !.res = "raised", !.exc = "other"])
    /\ lastFail' = [lastFail EXCEPT ![ShowOf(c)] =
                       [number |-> c.number, latest |-> c.latest, cycle |-> ncycles,
                        stream |-> c.stream]]
    /\ clean' = FALSE
    /\ StoreUnchanged
    /\ UNCHANGED <<ncycles, feed, calc, gapped, prevClean>>

\* lines 165-181: the delayed flag read with the show is cleared, the last
\* edit_history_length episodes of the show are edited
AfterAdd(w, c, rows) ==
    /\ delayed' = IF c.show_delayed THEN [delayed EXCEPT ![ShowOf(c)] = FALSE] ELSE delayed
    /\ Set(w, AfterEpisode([c EXCEPT !.res = "posted",
                                     !.edited = editing_episodes(rows)]))

AddEpisode(w) ==
    LET c == cyc[w] IN
    /\ c.pc = "persist"
    /\ episodes' = add_episode(ShowOf(c), c.number)
    /\ persisted' = [persisted EXCEPT ![ShowOf(c)] = Append(@, c.number)]
    /\ AfterAdd(w, c, episodes'[ShowOf(c)])
    /\ UNCHANGED <<enabled, published, orphans>>
    /\ HistUnchanged

\* a cycle in which no call raises
Reconcile(w) ==
    \/ SkipNotGeneric(w)
    \/ FetchOk(w)
    \/ EndService(w)
    \/ NextStream(w)
    \/ ProcessEpisode(w)
    \/ PublishOk(w)
    \/ PublishNone(w)
    \/ AddEpisode(w)

\* the calls that raise
Raises(w) ==
    \/ FetchIOError(w)
    \/ FetchException(w)
    \/ PublishIOError(w)
    \/ PublishException(w)

(***************************************************************************)
(* Spec: invocations one after the other (the scheduler serializes them),  *)
(* sources that report anything and may fail, a publisher that may fail,   *)
(* a Store that works.                                                     *)
(***************************************************************************)
Next == StartCycle(1) \/ Reconcile(1) \/ Raises(1)

Spec == Init /\ [][Next]_vars

\* the calls of get_episodes in a cycle: pass, service, stream
ReportKeys ==
    { <<"direct", 1, 1>>, <<"direct", 1, 2>>, <<"generic", 2, -1>>, <<"generic", 2, -2>> }

Live(S) == { [number |-> n, live |-> TRUE] : n \in S }

(***************************************************************************)
(* SpecFault: cycles one after the other against sources that hold the     *)
(* same report every time; the write of the Episode row may fail, or the   *)
(* process may die before it.                                              *)
(***************************************************************************)
FaultFeeds ==
    { [kind |-> "fixed",
       report |-> [k \in ReportKeys |->
                     IF k = <<"direct", 1, 1>> THEN a
                     ELSE IF k = <<"generic", 2, -1>> THEN b ELSE {}]] :
      a \in CandSets, b \in {{}, Live({1})} }

InitFault ==
    /\ InitStore
    /\ published = [s \in Shows |-> [n \in 1..MaxNum |-> IF n \in episodes[s] THEN 1 ELSE 0]]
    /\ persisted = [s \in Shows |-> <<>>]
    /\ cyc = [w \in Workers |-> Idle]
    /\ ncycles = 0
    /\ feed \in FaultFeeds
    /\ lastFail = [s \in Shows |-> [number |-> 0, latest |-> None, cycle |-> 0, stream |-> 0]]
    /\ orphans = {}
    /\ gapped = {}
    /\ clean = TRUE
    /\ prevClean = TRUE
    /\ calc = NoCalc

\* the INSERT raises: db_error logs it and returns False, which line 164 drops;
\* lines 165-181 run as usual
AddEpisodeFails(w) ==
    LET c == cyc[w] IN
    /\ c.pc = "persist"
    /\ AfterAdd(w, c, episodes[ShowOf(c)])
    /\ orphans' = orphans \cup {<<ShowOf(c), c.number, ncycles>>}
    /\ UNCHANGED <<episodes, enabled, published, persisted>>
    /\ HistUnchanged

\* the process dies between the post and the INSERT
Crash(w) ==
    LET c == cyc[w] IN
    /\ c.pc = "persist"
    /\ Set(w, [c EXCEPT !.pc = "crashed"])
    /\ orphans' = orphans \cup {<<ShowOf(c), c.number, ncycles>>}
    /\ UNCHANGED <<episodes, delayed, enabled, published, persisted>>
    /\ HistUnchanged

\* the SELECT of get_latest_episode raises while a live candidate with a
\* positive number is tested: db_error_default hands None to line 132
ProcessEpisodeDbError(w) ==
    LET c == cyc[w]
        episode == FirstCand(c.pending)
    IN  /\ c.pc = "episodes"
        /\ episode.live
        /\ to_internal_episode(StreamById(c.stream), episode).ret.number > 0
        /\ Set(w, Classify(c, TRUE))
        /\ clean' = (clean /\ (cyc'[w].res = "new" \/ cyc'[w].already_seen))
        /\ StoreUnchanged
        /\ UNCHANGED <<ncycles, feed, calc, lastFail, gapped, prevClean>>

NextFault ==
    \/ StartCycle(1)
    \/ Reconcile(1)
    \/ AddEpisodeFails(1)
    \/ Crash(1)
    \/ ProcessEpisodeDbError(1)

SpecFault == InitFault /\ [][NextFault]_vars

(***************************************************************************)
(* SpecOverlap: two invocations of holo.py at once on one database (the    *)
(* code takes no lock and keeps no pid file); the sources hold a fixed     *)
(* report.                                                                 *)
(***************************************************************************)
OverlapFeeds ==
    { [kind |-> "fixed",
       report |-> [k \in ReportKeys |->
                     IF k = <<"direct", 1, 1>> THEN a
                     ELSE IF k = <<"generic", 2, -1>> THEN b ELSE {}]] :
      a \in {Live({2}), Live({2, 3})}, b \in {{}, Live({1})} }

InitOverlap ==
    /\ episodes \in { [s \in Shows |-> {}], [s \in Shows |-> IF s = 1 THEN {0} ELSE {}] }
    /\ delayed = [s \in Shows |-> FALSE]
    /\ enabled = [s \in Shows |-> TRUE]
    /\ published = [s \in Shows |-> [n \in 1..MaxNum |-> 0]]
    /\ persisted = [s \in Shows |-> <<>>]
    /\ cyc = [w \in Workers |-> Idle]
    /\ ncycles = 0
    /\ feed \in OverlapFeeds
    /\ lastFail = [s \in Shows |-> [number |-> 0, latest |-> None, cycle |-> 0, stream |-> 0]]
    /\ orphans = {}
    /\ gapped = {}
    /\ clean = TRUE
    /\ prevClean = TRUE
    /\ calc = NoCalc

\* holo.main starts the module, whatever else is running
StartOverlapping(w) ==
    /\ ncycles < MaxCycles
    /\ ~Running(w)
    /\ Set(w, [Idle EXCEPT !.pc = "fetch"])
    /\ ncycles' = ncycles + 1
    /\ prevClean' = clean
    /\ clean' = TRUE
    /\ StoreUnchanged
    /\ UNCHANGED <<feed, calc, lastFail, gapped>>

NextOverlap == \E w \in Workers : StartOverlapping(w) \/ Reconcile(w)

SpecOverlap == InitOverlap /\ [][NextOverlap]_vars

(***************************************************************************)
(* SpecTwice: cycles one after the other against sources that hold the     *)
(* same report every time.                                                 *)
(***************************************************************************)
TwiceFeeds ==
    { [kind |-> "fixed",
       report |-> [k \in ReportKeys |->
                     IF k = <<"direct", 1, 1>> THEN a
                     ELSE IF k = <<"generic", 2, -1>> THEN b
                     ELSE IF k = <<"direct", 1, 2>> THEN c ELSE {}]] :
      a \in CandSets, b \in CandSets, c \in FewCandSets }

InitTwice ==
    /\ InitStore
    /\ published = [s \in Shows |-> [n \in 1..MaxNum |-> IF n \in episodes[s] THEN 1 ELSE 0]]
    /\ persisted = [s \in Shows |-> <<>>]
    /\ cyc = [w \in Workers |-> Idle]
    /\ ncycles = 0
    /\ feed \in TwiceFeeds
    /\ lastFail = [s \in Shows |-> [number |-> 0, latest |-> None, cycle |-> 0, stream |-> 0]]
    /\ orphans = {}
    /\ gapped = {}
    /\ clean = TRUE
    /\ prevClean = TRUE
    /\ calc = NoCalc

NextTwice == StartCycle(1) \/ Reconcile(1)

SpecTwice == InitTwice /\ [][NextTwice]_vars

(***************************************************************************)
(* SpecAsWritten: the freshness test as lines 119-122 spell it.            *)
(* Episode.is_live is a property, so "episode.is_live()" calls the bool    *)
(* the property returns: TypeError: 'bool' object is not callable, for a   *)
(* candidate of any date.  TypeError is no IOError: it leaves main.        *)
(***************************************************************************)
IsLiveCall(w) ==
    LET c == cyc[w] IN
    /\ c.pc = "episodes"
    /\ Set(w, [c EXCEPT !.pc = "aborted", !.res = "raised", !.exc = "other",
                        !.native = FirstCand(c.pending).number])
    /\ clean' = FALSE
    /\ StoreUnchanged
    /\ UNCHANGED <<ncycles, feed, calc, lastFail, gapped, prevClean>>

NextAsWritten ==
    \/ StartCycle(1)
    \/ SkipNotGeneric(1)
    \/ FetchOk(1)
    \/ EndService(1)
    \/ NextStream(1)
    \/ IsLiveCall(1)

SpecAsWritten == Init /\ [][NextAsWritten]_vars

(***************************************************************************)
(* SpecBurst: cycles one after the other with the option max_posts of the  *)
(* configuration file ([reddit] section, config.max_episodes) set to any   *)
(* small value; the sources hold a fixed report.                           *)
(***************************************************************************)
BurstFeeds ==
    { [kind |-> "fixed",
       report |-> [k \in ReportKeys |->
                     IF k = <<"direct", 1, 1>> THEN a
                     ELSE IF k = <<"generic", 2, -1>> THEN b ELSE {}]] :
      a \in CandSets, b \in {{}, Live({MaxNum})} }

InitBurst ==
    /\ InitStore
    /\ published = [s \in Shows |-> [n \in 1..MaxNum |-> IF n \in episodes[s] THEN 1 ELSE 0]]
    /\ persisted = [s \in Shows |-> <<>>]
    /\ cyc = [w \in Workers |-> Idle]
    /\ ncycles = 0
    /\ feed \in BurstFeeds
    /\ lastFail = [s \in Shows |-> [number |-> 0, latest |-> None, cycle |-> 0, stream |-> 0]]
    /\ orphans = {}
    /\ gapped = {}
    /\ clean = TRUE
    /\ prevClean = TRUE
    /\ \E k \in 1..MaxNum : calc = [op |-> "config", max_episodes |-> k]

NextBurst == StartCycle(1) \/ Reconcile(1)

SpecBurst == InitBurst /\ [][NextBurst]_vars

(***************************************************************************)
(* SpecRetry: the module is run again and again (cron) against a source    *)
(* that holds the same report every time: the episode after the show's     *)
(* latest one, possibly with the one after it.  The post may fail any      *)
(* number of times; it does not fail for ever.                             *)
(***************************************************************************)
\* the reports of stream 1, whose numbers are one above the internal ones, and
\* of the generic service, for the internal number t
RetryFeeds(t) ==
    { [kind |-> "fixed",
       report |-> [k \in ReportKeys |->
                     IF k = <<"direct", 1, 1>> THEN Live({ n + 1 : n \in a })
                     ELSE IF k = <<"generic", 2, -1>> THEN Live(b) ELSE {}]] :
      a \in {{t}, {t, t + 1}}, b \in {{}, {t + 1}} }

InitRetry ==
    /\ \E latest \in {0, 1} :
         /\ episodes = [s \in Shows |-> IF s = 1 THEN {latest} ELSE {}]
         /\ calc = [op |-> "retry", latest |-> latest, target |-> latest + 1]
         /\ feed \in RetryFeeds(latest + 1)
    /\ delayed \in { f \in [Shows -> BOOLEAN] : ~f[2] }
    /\ enabled = [s \in Shows |-> TRUE]
    /\ published = [s \in Shows |-> [n \in 1..MaxNum |-> IF n \in episodes[s] THEN 1 ELSE 0]]
    /\ persisted = [s \in Shows |-> <<>>]
    /\ cyc = [w \in Workers |-> Idle]
    /\ ncycles = 0
    /\ lastFail = [s \in Shows |-> [number |-> 0, latest |-> None, cycle |-> 0, stream |-> 0]]
    /\ orphans = {}
    /\ gapped = {}
    /\ clean = TRUE
    /\ prevClean = TRUE

\* the next run of holo.py; runs beyond MaxCycles are not counted
StartAgain(w) ==
    /\ \A v \in Workers : ~Running(v)
    /\ Set(w, [Idle EXCEPT !.pc = "fetch"])
    /\ ncycles' = IF ncycles < MaxCycles THEN ncycles + 1 ELSE ncycles
    /\ prevClean' = clean
    /\ clean' = TRUE
    /\ StoreUnchanged
    /\ UNCHANGED <<feed, calc, lastFail, gapped>>

NextRetry == StartAgain(1) \/ Reconcile(1)

\* cron keeps starting the module and every run goes on to its end; a post
\* that is tried again and again is submitted at some time
SpecRetry ==
    InitRetry /\ [][NextRetry]_vars /\ WF_vars(NextRetry) /\ SF_vars(PublishOk(1))

(***************************************************************************)
(* SpecLength: the shows have a length (Shows.length, 0 when it is not     *)
(* known); between the runs of the episode module the update module may    *)
(* run and disable the shows that are finished.  The generic service holds *)
(* a fixed report about show 1.                                            *)
(***************************************************************************)
LengthFeeds ==
    { [kind |-> "fixed",
       report |-> [k \in ReportKeys |-> IF k = <<"generic", 2, -1>> THEN a ELSE {}]] :
      a \in CandSets }

InitLength ==
    /\ \E length \in [Shows -> 0..MaxNum] :
         /\ calc = [op |-> "length", length |-> length]
         /\ episodes \in { f \in [Shows -> InitEpisodes] :
                              /\ f[2] = {}
                              /\ \A s \in Shows : \A n \in f[s] : length[s] > 0 => n <= length[s] }
    /\ delayed = [s \in Shows |-> FALSE]
    /\ enabled = [s \in Shows |-> TRUE]
    /\ published = [s \in Shows |-> [n \in 1..MaxNum |-> IF n \in episodes[s] THEN 1 ELSE 0]]
    /\ persisted = [s \in Shows |-> <<>>]
    /\ cyc = [w \in Workers |-> Idle]
    /\ ncycles = 0
    /\ feed \in LengthFeeds
    /\ lastFail = [s \in Shows |-> [number |-> 0, latest |-> None, cycle |-> 0, stream |-> 0]]
    /\ orphans = {}
    /\ gapped = {}
    /\ clean = TRUE
    /\ prevClean = TRUE

\* _disable_finished_shows, line 73
is_finished(length, latest) == latest # None /\ 0 < length /\ length <= latest

\* module_update_shows._disable_finished_shows, run while the episode module
\* is not running
DisableFinishedShows ==
    /\ calc.op = "length"
    /\ \A v \in Workers : ~Running(v)
    /\ enabled' = [s \in Shows |->
                     enabled[s] /\ ~is_finished(calc.length[s], get_latest_episode(s))]
    /\ enabled' # enabled
    /\ UNCHANGED <<episodes, delayed, published, persisted, orphans, cyc>>
    /\ HistUnchanged

NextLength == StartCycle(1) \/ Reconcile(1) \/ DisableFinishedShows

SpecLength == InitLength /\ [][NextLength]_vars

(***************************************************************************)
(* The pure functions are followed one call at a time in calc, the engine  *)
(* standing still.                                                         *)
(***************************************************************************)
AtRest ==
    /\ episodes = [s \in Shows |-> {}]
    /\ delayed = [s \in Shows |-> FALSE]
    /\ enabled = [s \in Shows |-> TRUE]
    /\ published = [s \in Shows |-> [n \in 1..MaxNum |-> 0]]
    /\ persisted = [s \in Shows |-> <<>>]
    /\ cyc = [w \in Workers |-> Idle]
    /\ ncycles = 0
    /\ feed = NoFeed
    /\ lastFail = [s \in Shows |-> [number |-> 0, latest |-> None, cycle |-> 0, stream |-> 0]]
    /\ orphans = {}
    /\ gapped = {}
    /\ clean = TRUE
    /\ prevClean = TRUE

RestUnchanged ==
    UNCHANGED <<episodes, delayed, enabled, published, persisted, cyc, ncycles, feed,
                lastFail, orphans, gapped, clean, prevClean>>

(***************************************************************************)
(* SpecOffsets: Stream.to_internal_episode, then Stream.to_display_episode *)
(* on its result, for any offsets and any number of the service.           *)
(***************************************************************************)
Offsets == (0 - MaxOffset)..MaxOffset

InitOffsets ==
    /\ AtRest
    /\ \E r \in Offsets, d \in Offsets, x \in 0..(MaxNum + MaxOffset) :
         calc = [op |-> "offsets", pc |-> "start", x |-> x,
                 stream |-> [remote_offset |-> r, display_offset |-> d],
                 episode |-> [number |-> x, live |-> TRUE],
                 int_episode |-> [number |-> 0, live |-> TRUE],
                 display_episode |-> [number |-> 0, live |-> TRUE]]

\* int_episode = stream.to_internal_episode(episode)
ToInternal ==
    /\ calc.op = "offsets"
    /\ calc.pc = "start"
    /\ LET call == to_internal_episode(calc.stream, calc.episode)
       IN  calc' = [calc EXCEPT !.pc = "internal", !.episode = call.arg,
                                !.int_episode = call.ret]
    /\ RestUnchanged

\* display_episode = stream.to_display_episode(int_episode)
ToDisplay ==
    /\ calc.op = "offsets"
    /\ calc.pc = "internal"
    /\ LET call == to_display_episode(calc.stream, calc.int_episode)
       IN  calc' = [calc EXCEPT !.pc = "display", !.int_episode = call.arg,
                                !.display_episode = call.ret]
    /\ RestUnchanged

NextOffsets == ToInternal \/ ToDisplay

SpecOffsets == InitOffsets /\ [][NextOffsets]_vars

(***************************************************************************)
(* The generic matcher (services/stream/nyaa.py).  A string is a sequence  *)
(* of pieces; a piece is a run of letters, one digit, one blank or one     *)
(* other character, so that every step of _normalize_show_name works on    *)
(* pieces as it does on characters.                                        *)
(***************************************************************************)
Digits == {"2"}

\* the pieces made of a-z and 0-9 only
Alnum == {"show", "other", "season", "part"} \cup Digits

\* str.casefold
casefold(name) == [i \in 1..Len(name) |-> IF name[i] = "Show" THEN "show" ELSE name[i]]

\* re.sub("[^a-z0-9]", " ", name)
non_alnum_to_space(name) ==
    [i \in 1..Len(name) |-> IF name[i] \in Alnum THEN name[i] ELSE " "]

From(seq, i) == SubSeq(seq, i, Len(seq))

\* re.sub("season \d( part \d)?", " ", name): leftmost matches, the longer
\* alternative first
RECURSIVE remove_season(_)
remove_season(name) ==
    IF name = <<>> THEN <<>>
    ELSE IF Len(name) >= 3 /\ name[1] = "season" /\ name[2] = " " /\ name[3] \in Digits
         THEN IF Len(name) >= 7 /\ name[4] = " " /\ name[5] = "part" /\ name[6] = " "
                    /\ name[7] \in Digits
              THEN <<" ">> \o remove_season(From(name, 8))
              ELSE <<" ">> \o remove_season(From(name, 4))
         ELSE <<name[1]>> \o remove_season(Tail(name))

\* re.sub("\s+", " ", name)
RECURSIVE collapse_spaces(_)
collapse_spaces(name) ==
    IF name = <<>> THEN <<>>
    ELSE IF Len(name) >= 2 /\ name[1] = " " /\ name[2] = " "
         THEN collapse_spaces(Tail(name))
         ELSE <<name[1]>> \o collapse_spaces(Tail(name))

\* _normalize_show_name
normalize_show_name(name) ==
    collapse_spaces(remove_season(non_alnum_to_space(casefold(name))))

\* set(str.split()): the words between the blanks; cur is the word being read
RECURSIVE split(_, _)
split(name, cur) ==
    IF name = <<>> THEN (IF cur = <<>> THEN {} ELSE {cur})
    ELSE IF Head(name) = " "
         THEN (IF cur = <<>> THEN {} ELSE {cur}) \cup split(Tail(name), <<>>)
         ELSE split(Tail(name), Append(cur, Head(name)))

\* set(_normalize_show_name(name).split())
words(name) == split(normalize_show_name(name), <<>>)

NoName == <<"None">>

\* lines 89: the names a stream is matched by
names(stream) == <<stream.show.name>> \o stream.show.aliases \o <<stream.show_key>>

\* lines 88-101 for one stream: some name's words are all in the title
matches(stream, torrent) ==
    \E i \in 1..Len(names(stream)) : words(names(stream)[i]) \subseteq words(torrent.title)

\* _find_matching_stream: the streams that match, in the order given
RECURSIVE find_matching_stream(_, _)
find_matching_stream(torrent, streams) ==
    IF streams = <<>> THEN <<>>
    ELSE (IF matches(Head(streams), torrent) THEN <<Head(streams)>> ELSE <<>>)
            \o find_matching_stream(torrent, Tail(streams))

\* _is_valid_episode: not excluded by a pattern, not older than two days, and
\* a number above 0 found in the title
is_valid_episode(torrent) ==
    ~torrent.excluded /\ ~torrent.old /\ torrent.num # None /\ torrent.num > 0

\* the None of _digest_episode
NoEpisode == [number |-> None, live |-> FALSE]

\* _digest_episode: an Episode with the number found in the title, or None
digest_episode(torrent) ==
    IF torrent.num # None THEN [number |-> torrent.num, live |-> TRUE] ELSE NoEpisode

\* get_recent_episodes, lines 60-80 for one torrent: the episodes dict by stream id
get_recent_episodes(torrent, streams) ==
    LET found_streams == find_matching_stream(torrent, streams)
        ids == IF ~is_valid_episode(torrent) \/ digest_episode(torrent) = NoEpisode THEN {}
               ELSE { found_streams[i].id : i \in 1..Len(found_streams) }
    IN  [id \in ids |-> <<digest_episode(torrent)>>]

(***************************************************************************)
(* SpecMatch: one item of the feed against two streams.                    *)
(***************************************************************************)
TitlePieces == {"Show", "other", "season", "2", " ", "-"}

RECURSIVE Strings(_, _)
Strings(pieces, n) ==
    IF n = 0 THEN {<<>>}
    ELSE LET shorter == Strings(pieces, n - 1)
         IN  shorter \cup { Append(t, p) : t \in shorter, p \in pieces }

ShowNames == { <<"show">>, <<"Show", " ", "other">>, <<"show", " ", "season", " ", "2">> }

\* a show with its name only, or with one more name: an English name, an
\* alias, or a stream key of its own
MatchShows ==
    { [id |-> 1, name |-> n, name_en |-> e, aliases |-> a, show_key |-> k] :
        n \in ShowNames, e \in ShowNames \cup {NoName},
        a \in {<<>>} \cup { <<m>> : m \in ShowNames }, k \in ShowNames }

OneMore(sh) ==
    Cardinality({ x \in {1, 2, 3} :
                    \/ x = 1 /\ sh.name_en # NoName
                    \/ x = 2 /\ sh.aliases # <<>>
                    \/ x = 3 /\ sh.show_key # sh.name }) <= 1

StreamOf(sh, id) ==
    [id |-> id, show_key |-> sh.show_key,
     show |-> [id |-> id, name |-> sh.name, name_en |-> sh.name_en, aliases |-> sh.aliases]]

InitMatch ==
    /\ AtRest
    /\ \E sh \in { m \in MatchShows : OneMore(m) }, n2 \in ShowNames,
          title \in Strings(TitlePieces, MaxTitle),
          bad \in {"no", "excluded", "old"}, num \in {None, 0, 1} :
         /\ n2 # sh.name
         /\ calc = [op |-> "match", pc |-> "start",
                    torrent |-> [title |-> title, excluded |-> bad = "excluded",
                                 old |-> bad = "old", num |-> num],
                    streams |-> <<StreamOf(sh, 1),
                                  StreamOf([name |-> n2, name_en |-> NoName, aliases |-> <<>>,
                                            show_key |-> n2], 2)>>,
                    found_streams |-> <<>>,
                    episodes |-> <<>>]

\* found_streams = self._find_matching_stream(torrent, streams)
FindMatchingStream ==
    /\ calc.op = "match"
    /\ calc.pc = "start"
    /\ calc' = [calc EXCEPT !.pc = "found",
                            !.found_streams = find_matching_stream(calc.torrent, calc.streams)]
    /\ RestUnchanged

\* the rest of get_recent_episodes for the torrent
GetRecentEpisodes ==
    /\ calc.op = "match"
    /\ calc.pc = "found"
    /\ calc' = [calc EXCEPT !.pc = "done",
                            !.episodes = get_recent_episodes(calc.torrent, calc.streams)]
    /\ RestUnchanged

NextMatch == FindMatchingStream \/ GetRecentEpisodes

SpecMatch == InitMatch /\ [][NextMatch]_vars

(***************************************************************************)
(* SpecWordless: one item of the feed against the streams the second loop  *)
(* of main derives from two shows (Stream.from_show: the key of the stream *)
(* is the name of the show), a name or an alias of the first show being    *)
(* written without any of a-z and 0-9.                                     *)
(***************************************************************************)
\* a name in another script, and a name that is a season marker only
WordlessNames == { <<"-">>, <<"-", " ", "-">>, <<"season", " ", "2">> }

InitWordless ==
    /\ AtRest
    /\ \E name \in ShowNames \cup WordlessNames,
          aliases \in {<<>>} \cup { <<a>> : a \in ShowNames \cup WordlessNames },
          n2 \in ShowNames,
          title \in Strings(TitlePieces, MaxTitle) :
         /\ n2 # name
         /\ calc = [op |-> "match", pc |-> "start",
                    torrent |-> [title |-> title, excluded |-> FALSE, old |-> FALSE, num |-> 1],
                    streams |-> <<StreamOf([name |-> name, name_en |-> NoName,
                                            aliases |-> aliases, show_key |-> name], 1),
                                  StreamOf([name |-> n2, name_en |-> NoName, aliases |-> <<>>,
                                            show_key |-> n2], 2)>>,
                    found_streams |-> <<>>,
                    episodes |-> <<>>]

SpecWordless == InitWordless /\ [][NextMatch]_vars

(***************************************************************************)
(* SpecTable: the Episodes table row by row.  The set episodes[show] of    *)
(* the engine's model is this table seen through its UNIQUE constraint.    *)
(***************************************************************************)
\* INSERT with no constraint on (show, episode)
insert_episode_plain(rows, row) == Append(rows, row)

\* INSERT INTO Episodes under UNIQUE(show, episode) ON CONFLICT REPLACE: the
\* rows in conflict are deleted, then the row is inserted
insert_episode(rows, row) ==
    LET Other(r) == ~(r.show = row.show /\ r.episode = row.episode)
    IN  Append(SelectSeq(rows, Other), row)

InitTable ==
    /\ AtRest
    /\ calc = [op |-> "table", rows |-> <<>>, calls |-> 0]

\* db.add_episode(show, episode_num, post_url)
AddEpisodeRow ==
    /\ calc.op = "table"
    /\ calc.calls < MaxAdds
    /\ \E show \in Shows, episode_num \in 1..MaxNum, post_url \in {"u1", "u2"} :
         calc' = [calc EXCEPT
                    !.rows = insert_episode(@, [show |-> show, episode |-> episode_num,
                                                post_url |-> post_url]),
                    !.calls = @ + 1]
    /\ RestUnchanged

NextTable == AddEpisodeRow

SpecTable == InitTable /\ [][NextTable]_vars

(***************************************************************************)
(* SpecBackfill: lines 158-185 of _process_new_episode for a New episode   *)
(* of a show with many Episode rows: the post, the row, and the edits of   *)
(* the earlier threads.                                                    *)
(***************************************************************************)
\* the rows of show 1: episodes 1..k, one of them possibly missing
ManyRows == { (1..k) \ {h} : k \in 0..MaxRows, h \in 0..MaxRows }

InitBackfill ==
    /\ AtRest
    /\ \E r1 \in ManyRows, r2 \in {{}, {1}} :
         calc = [op |-> "backfill", pc |-> "start", show |-> 0, number |-> 0,
                 rows |-> [s \in Shows |-> IF s = 1 THEN r1 ELSE r2],
                 before |-> [s \in Shows |-> IF s = 1 THEN r1 ELSE r2],
                 post_url |-> "none", edits |-> <<>>]

\* the edits of lines 172-181, in the order they are made
EditsOf(show, rows) ==
    [i \in 1..Len(editing_episodes(rows)) |-> [show |-> show, number |-> editing_episodes(rows)[i]]]

\* the New episode of a show (its latest number + 1) is posted and stored, and
\* the earlier threads are edited
NewEpisodePosted ==
    /\ calc.op = "backfill"
    /\ calc.pc = "start"
    /\ \E show \in Shows :
         LET number == IF calc.rows[show] = {} THEN 1 ELSE Max(calc.rows[show]) + 1
             rows == calc.rows[show] \cup {number}
         IN  calc' = [calc EXCEPT !.pc = "done", !.show = show, !.number = number,
                                  !.post_url = "link",
                                  !.rows = [@ EXCEPT ![show] = rows],
                                  !.edits = EditsOf(show, rows)]
    /\ RestUnchanged

\* post_url is None: "Episode not submitted"
NewEpisodeNotSubmitted ==
    /\ calc.op = "backfill"
    /\ calc.pc = "start"
    /\ \E show \in Shows :
         LET number == IF calc.rows[show] = {} THEN 1 ELSE Max(calc.rows[show]) + 1
         IN  calc' = [calc EXCEPT !.pc = "done", !.show = show, !.number = number,
                                  !.post_url = "None"]
    /\ RestUnchanged

NextBackfill == NewEpisodePosted \/ NewEpisodeNotSubmitted

SpecBackfill == InitBackfill /\ [][NextBackfill]_vars

(***************************************************************************)
(* SpecRender: _create_reddit_post for a New episode: the number is turned *)
(* into its display form (line 200) and the title and the body are built   *)
(* from that object.  calc keeps the numbers that are compared, looked up  *)
(* in the Polls table and stored in it on the way.                         *)
(***************************************************************************)
\* _create_post_title, line 308: the title of the show's last episode
is_final(show_length, episode_number) == episode_number = show_length

\* db.get_poll(show, episode): the row of Polls with this episode number
get_poll(polls, episode_number) == episode_number \in polls

\* db.add_poll(show, episode, site, poll_id)
add_poll(polls, episode_number) == polls \cup {episode_number}

InitRender ==
    /\ AtRest
    /\ \E d \in Offsets, n \in 1..MaxNum, length \in 0..(MaxNum + MaxOffset),
          p \in {"none", "internal", "display"} :
         calc = [op |-> "render", pc |-> "start",
                 stream |-> [remote_offset |-> 0, display_offset |-> d],
                 length |-> length,
                 int_episode |-> [number |-> n, live |-> TRUE],
                 episode |-> [number |-> 0, live |-> TRUE],
                 rows |-> 1..(n - 1),
                 polls |-> IF p = "none" THEN {} ELSE IF p = "internal" THEN {n} ELSE {n + d},
                 compared |-> {}, looked_up |-> {}, stored |-> {},
                 final |-> FALSE, text |-> <<>>]

\* line 200: display_episode = stream.to_display_episode(episode)
RenderDisplay ==
    /\ calc.op = "render"
    /\ calc.pc = "start"
    /\ calc' = [calc EXCEPT !.pc = "title",
                            !.episode = to_display_episode(calc.stream, calc.int_episode).ret]
    /\ RestUnchanged

\* _create_post_title(config, show, episode)
CreatePostTitle ==
    /\ calc.op = "render"
    /\ calc.pc = "title"
    /\ calc' = [calc EXCEPT !.pc = "discussions",
                            !.compared = @ \cup {calc.episode.number},
                            !.final = is_final(calc.length, calc.episode.number)]
    /\ RestUnchanged

\* _gen_text_discussions: each row of the show is turned into its display form
\* and its poll is read
GenTextDiscussions ==
    /\ calc.op = "render"
    /\ calc.pc = "discussions"
    /\ calc' = [calc EXCEPT
                  !.pc = "poll",
                  !.looked_up = @ \cup
                      { to_display_episode(calc.stream, [number |-> r, live |-> TRUE]).ret.number :
                          r \in calc.rows }]
    /\ RestUnchanged

\* _gen_text_poll: the poll of the episode is read; when there is none a poll
\* is created and, if the poll site gave an id, stored
GenTextPoll ==
    /\ calc.op = "render"
    /\ calc.pc = "poll"
    /\ \E poll_id \in BOOLEAN :
         IF ~get_poll(calc.polls, calc.episode.number) /\ poll_id
         THEN calc' = [calc EXCEPT !.pc = "text",
                                   !.looked_up = @ \cup {calc.episode.number},
                                   !.stored = @ \cup {calc.episode.number},
                                   !.polls = add_poll(@, calc.episode.number)]
         ELSE calc' = [calc EXCEPT !.pc = "text",
                                   !.looked_up = @ \cup {calc.episode.number}]
    /\ RestUnchanged

\* _format_post_text, line 296: {episode} in the text
FormatPostText ==
    /\ calc.op = "render"
    /\ calc.pc = "text"
    /\ calc' = [calc EXCEPT !.pc = "done", !.text = <<calc.episode.number>>]
    /\ RestUnchanged

NextRender ==
    \/ RenderDisplay
    \/ CreatePostTitle
    \/ GenTextDiscussions
    \/ GenTextPoll
    \/ FormatPostText

SpecRender == InitRender /\ [][NextRender]_vars

(***************************************************************************)
(* SpecDigest: one entry of the Crunchyroll feed, from its                 *)
(* crunchyroll_episodenumber field to the Episode row.  The field is a     *)
(* string of characters; _digest_episode reads the digits it starts with.  *)
(***************************************************************************)
NumberChars == {"0", "1", "2", "a", "x"}

DigitValue(ch) == IF ch = "0" THEN 0 ELSE IF ch = "1" THEN 1 ELSE 2

\* re.compile("([0-9]+)[abc]?").match(s).group(1): the digits s starts with,
\* <<>> when the pattern does not match
RECURSIVE episode_count_fix(_)
episode_count_fix(s) ==
    IF s = <<>> \/ Head(s) \notin {"0", "1", "2"} THEN <<>>
    ELSE <<Head(s)>> \o episode_count_fix(Tail(s))

\* int(digits)
RECURSIVE int(_)
int(digits) ==
    IF digits = <<>> THEN 0
    ELSE 10 * int(SubSeq(digits, 1, Len(digits) - 1)) + DigitValue(digits[Len(digits)])

\* _digest_episode, lines 217-224: the number of the Episode, 0 when the field
\* does not start with a digit
digest_number(s) == IF episode_count_fix(s) # <<>> THEN int(episode_count_fix(s)) ELSE 0

InitDigest ==
    /\ AtRest
    /\ \E s \in Strings(NumberChars, MaxField), r \in Offsets, rows \in InitEpisodes :
         calc = [op |-> "digest", pc |-> "start", field |-> s,
                 stream |-> [remote_offset |-> r, display_offset |-> 0],
                 rows |-> rows, num |-> None, number |-> 0, res |-> "none"]

\* get_all_episodes, lines 32-35: the entry is digested and appended
DigestEpisode ==
    /\ calc.op = "digest"
    /\ calc.pc = "start"
    /\ calc' = [calc EXCEPT !.pc = "digested", !.num = digest_number(calc.field)]
    /\ RestUnchanged

\* _process_new_episode for the digested entry, the post being submitted
ProcessDigested ==
    /\ calc.op = "digest"
    /\ calc.pc = "digested"
    /\ LET number == to_internal_episode(calc.stream, [number |-> calc.num, live |-> TRUE]).ret.number
           latest == IF calc.rows = {} THEN None ELSE Max(calc.rows)
       IN  IF number <= 0
           THEN calc' = [calc EXCEPT !.pc = "done", !.number = number, !.res = "invalid"]
           ELSE IF is_new(latest, number)
                THEN calc' = [calc EXCEPT !.pc = "done", !.number = number, !.res = "posted",
                                          !.rows = @ \cup {number}]
                ELSE calc' = [calc EXCEPT !.pc = "done", !.number = number, !.res = "skip"]
    /\ RestUnchanged

NextDigest == DigestEpisode \/ ProcessDigested

SpecDigest == InitDigest /\ [][NextDigest]_vars

(***************************************************************************)
(* SpecTxn: the sqlite3 connection of one run of the episode module.  rows *)
(* is the Episodes table as the connection sees it, disk what has been     *)
(* committed; holo.main rolls back when the module raises and closes the   *)
(* connection at the end.                                                  *)
(***************************************************************************)
\* Connection.commit
commit(conn) == [conn EXCEPT !.disk = conn.rows]

\* Connection.rollback
rollback(conn) == [conn EXCEPT !.rows = conn.disk]

\* the INSERT without "self.commit()"
add_episode_pending(conn, show, episode_num) ==
    [conn EXCEPT !.rows = @ \cup {<<show, episode_num>>}]

\* db.add_episode on the connection: the INSERT, then self.commit()
add_episode_commit(conn, show, episode_num) ==
    commit([conn EXCEPT !.rows = @ \cup {<<show, episode_num>>}])

InitTxn ==
    /\ AtRest
    /\ \E old \in SUBSET {<<1, 1>>, <<2, 1>>} :
         calc = [op |-> "txn", pc |-> "running", rows |-> old, disk |-> old,
                 added |-> <<>>, raised |-> FALSE]

\* a New episode is posted and db.add_episode called for it
AddEpisodeTxn ==
    /\ calc.op = "txn"
    /\ calc.pc = "running"
    /\ Len(calc.added) < MaxAdds
    /\ \E show \in Shows, episode_num \in 1..MaxNum :
         /\ <<show, episode_num>> \notin calc.rows
         /\ calc' = [add_episode_commit(calc, show, episode_num) EXCEPT
                       !.added = Append(@, <<show, episode_num>>)]
    /\ RestUnchanged

\* the module raises: holo.main logs the exception and calls db.rollback()
RaiseRollback ==
    /\ calc.op = "txn"
    /\ calc.pc = "running"
    /\ calc' = [rollback(calc) EXCEPT !.pc = "rolledback", !.raised = TRUE]
    /\ RestUnchanged

\* the module returns, or the rollback is done: db.close(), what was not
\* committed is lost
CloseTxn ==
    /\ calc.op = "txn"
    /\ calc.pc \in {"running", "rolledback"}
    /\ calc' = [rollback(calc) EXCEPT !.pc = "closed"]
    /\ RestUnchanged

NextTxn == AddEpisodeTxn \/ RaiseRollback \/ CloseTxn

SpecTxn == InitTxn /\ [][NextTxn]_vars

(***************************************************************************)
(* SpecEdit: module_edit.main on the connection of SpecTxn.  The edit file *)
(* is a list of documents, one per show; a change is written as (document, *)
(* table).                                                                 *)
(***************************************************************************)
\* a write of the Store with its commit parameter
db_write(conn, change, do_commit) ==
    LET c == [conn EXCEPT !.rows = @ \cup {change}]
    IN  IF do_commit THEN commit(c) ELSE c

\* update_db_with_show: db.add_show or db.update_show, commit=False
update_db_with_show(conn, d) == db_write(conn, <<d, "Shows">>, FALSE)

\* process_show_info: db.add_link(..., commit=False)
process_show_info(conn, d, doc) ==
    IF doc.info THEN db_write(conn, <<d, "Links">>, FALSE) ELSE conn

\* process_show_streams: db.add_stream or db.update_stream with commit=False
\* for a service with a handler, db.add_lite_stream (which commits) for a
\* "service|name" key
process_show_streams(conn, d, doc) ==
    LET c == IF doc.stream THEN db_write(conn, <<d, "Streams">>, FALSE) ELSE conn
    IN  IF doc.lite THEN db_write(c, <<d, "LiteStreams">>, TRUE) ELSE c

\* process_show_aliases: db.add_alias(show_id=show_id, alias=alias), commit
\* left at its default True
process_show_aliases(conn, d, doc) ==
    IF doc.alias THEN db_write(conn, <<d, "Aliases">>, TRUE) ELSE conn

\* a document: whether its show resolves (no YAMLError), and which of the
\* sections info, streams (with a handler, lite) and alias it has
Docs == [ok : BOOLEAN, info : BOOLEAN, stream : {TRUE}, lite : BOOLEAN, alias : BOOLEAN]

InitEdit ==
    /\ AtRest
    /\ \E parsed \in Strings(Docs, MaxDocs) :
         /\ parsed # <<>>
         /\ calc = [op |-> "edit", pc |-> "docs", parsed |-> parsed, d |-> 1,
                    rows |-> {}, disk |-> {}]

\* _edit_with_file, lines 44-61 for one document whose show resolves
EditDocument ==
    /\ calc.op = "edit"
    /\ calc.pc = "docs"
    /\ calc.d <= Len(calc.parsed)
    /\ calc.parsed[calc.d].ok
    /\ LET doc == calc.parsed[calc.d]
           c1 == update_db_with_show(calc, calc.d)
           c2 == process_show_info(c1, calc.d, doc)
           c3 == process_show_streams(c2, calc.d, doc)
           c4 == process_show_aliases(c3, calc.d, doc)
       IN  calc' = [c4 EXCEPT !.d = @ + 1]
    /\ RestUnchanged

\* get_show_from or update_db_with_show raises a YAMLError: _edit_with_file
\* returns False, main logs "Edit failed; reverting" and calls db.rollback()
EditFailed ==
    /\ calc.op = "edit"
    /\ calc.pc = "docs"
    /\ calc.d <= Len(calc.parsed)
    /\ ~calc.parsed[calc.d].ok
    /\ calc' = [rollback(calc) EXCEPT !.pc = "reverted"]
    /\ RestUnchanged

\* every document is done: _edit_with_file returns True, main calls db.commit()
EditSaved ==
    /\ calc.op = "edit"
    /\ calc.pc = "docs"
    /\ calc.d > Len(calc.parsed)
    /\ calc' = [commit(calc) EXCEPT !.pc = "saved"]
    /\ RestUnchanged

NextEdit == EditDocument \/ EditFailed \/ EditSaved

SpecEdit == InitEdit /\ [][NextEdit]_vars

(***************************************************************************)
(* SpecEditOffset: process_show_streams for one stream URL of the edit     *)
(* file whose stream is in the Streams table already.  The URL is a        *)
(* sequence of characters, "u" standing for the address.                   *)
(***************************************************************************)
UrlChars == {"|", "-", "0", "1", "2"}

\* url.rfind("|"): the last position of "|", 0 when there is none
RECURSIVE rfind(_)
rfind(url) ==
    IF url = <<>> THEN 0
    ELSE IF url[Len(url)] = "|" THEN Len(url)
    ELSE rfind(SubSeq(url, 1, Len(url) - 1))

\* int(s) for a string of digits and "-": digits with "-" before them or not
int_signed(s) ==
    LET digits == IF s # <<>> /\ Head(s) = "-" THEN Tail(s) ELSE s
    IN  IF digits = <<>> \/ episode_count_fix(digits) # digits THEN [error |-> "ValueError"]
        ELSE [error |-> "none",
              value |-> IF Head(s) = "-" THEN 0 - int(digits) ELSE int(digits)]

\* process_remote_offset
process_remote_offset(url) ==
    LET roi == rfind(url)
    IN  IF roi = 0 THEN [error |-> "none", value |-> 0]
        ELSE int_signed(SubSeq(url, roi + 1, Len(url)))

\* db.update_stream(..., remote_offset=remote_offset): "if remote_offset:"
\* guards the UPDATE
update_stream(stored, remote_offset) == IF remote_offset # 0 THEN remote_offset ELSE stored

InitEditOffset ==
    /\ AtRest
    /\ \E suffix \in Strings(UrlChars, MaxSuffix), stored \in Offsets :
         calc = [op |-> "editoffset", pc |-> "start", url |-> <<"u">> \o suffix,
                 stored |-> stored, remote_offset |-> 0]

\* lines 146-150: the offset is split off the URL; a ValueError is logged and
\* the stream left out
ProcessRemoteOffset ==
    /\ calc.op = "editoffset"
    /\ calc.pc = "start"
    /\ LET r == process_remote_offset(calc.url)
       IN  IF r.error = "ValueError" THEN calc' = [calc EXCEPT !.pc = "skipped"]
           ELSE calc' = [calc EXCEPT !.pc = "parsed", !.remote_offset = r.value]
    /\ RestUnchanged

\* lines 171-176: the stream exists, db.update_stream is called
UpdateStream ==
    /\ calc.op = "editoffset"
    /\ calc.pc = "parsed"
    /\ calc' = [calc EXCEPT !.pc = "done",
                            !.stored = update_stream(calc.stored, calc.remote_offset)]
    /\ RestUnchanged

NextEditOffset == ProcessRemoteOffset \/ UpdateStream

SpecEditOffset == InitEditOffset /\ [][NextEditOffset]_vars

(***************************************************************************)
(* Properties.                                                             *)
(***************************************************************************)
Last(seq) == seq[Len(seq)]

\* the show's latest known episode, None when it has none
LatestKnown(s) == IF episodes[s] = {} THEN None ELSE Max(episodes[s])

InSeq(x, seq) == \E i \in 1..Len(seq) : seq[i] = x

\* a candidate has just been classified by the invocation w
Classified(w) == cyc[w].res \in {"skip", "new"}

Added(s, n) == episodes'[s] = episodes[s] \cup {n} /\ n \notin episodes[s]

\* C2 as stated: whenever a row (show, n) is added for a show whose latest
\* episode is L, n = L + 1
C2_Original ==
    [][\A s \in Shows : \A n \in 0..MaxNum :
         (Added(s, n) /\ episodes[s] # {}) => n = LatestKnown(s) + 1]_vars

\* C2 amended: n = L + 1 whenever L > 0; after an episode 0 any positive number
\* is accepted
C2_NextNumber ==
    [][\A s \in Shows : \A n \in 0..MaxNum :
         (Added(s, n) /\ episodes[s] # {}) =>
            IF LatestKnown(s) > 0 THEN n = LatestKnown(s) + 1 ELSE n > 0]_vars

\* C2 witness: show 1 had episode 1, and episodes 2 and 3 were added one by one
C2_Witness == persisted[1] = <<2, 3>> /\ episodes[1] = {1, 2, 3}

\* C3: per show the numbers added by the episode module are strictly
\* increasing in the order of insertion, the latest episode never decreases
\* and no added number is at or below the latest episode of that moment
C3_Monotonic ==
    [][\A s \in Shows :
         /\ LatestKnown(s)' >= LatestKnown(s)
         /\ \A i \in 1..(Len(persisted'[s]) - 1) : persisted'[s][i] < persisted'[s][i + 1]
         /\ persisted'[s] # persisted[s] => Last(persisted'[s]) > LatestKnown(s)]_vars

\* C3 witness: two numbers were added to show 1 on top of its stored episode
C3_Witness == Len(persisted[1]) >= 2 /\ 1 \in episodes[1] /\ ~InSeq(1, persisted[1])

\* the classification as the specification words it
NoveltyClass(n, L) ==
    IF n <= 0 THEN "Invalid"
    ELSE IF L # None /\ n <= L THEN "AlreadySeen"
    ELSE IF L # None /\ L > 0 /\ n > L + 1 THEN "Gap"
    ELSE "New"

C4_State(w) ==
    LET c == cyc[w] IN
    c.res \in {"invalid", "skip", "new"} =>
        LET k == NoveltyClass(c.number, LatestKnown(ShowOf(c))) IN
        /\ c.res = "invalid" <=> k = "Invalid"
        /\ c.res = "new" <=> k = "New"
        /\ (c.res = "skip" /\ c.already_seen) <=> k = "AlreadySeen"
        /\ (c.res = "skip" /\ c.episode_number_gap) <=> k = "Gap"
        /\ c.res = "new" <=> c.pc \in {"publish", "persist"}

\* C4: a fresh candidate is Invalid, AlreadySeen, Gap or New as the
\* specification words it; the publisher is called exactly for the New ones,
\* and only a New candidate changes the Episodes table or the delayed flag
C4_Classification ==
    [][/\ \A w \in Workers : C4_State(w)'
       /\ (published' # published \/ episodes' # episodes \/ delayed' # delayed)
             => \E w \in Workers :
                  /\ cyc[w].res = "new"
                  /\ cyc[w].pc \in {"publish", "persist"}
                  /\ cyc'[w] # cyc[w]]_vars

\* C4 witness: after an episode 0 a candidate above 1 is New and has been posted
C4_Witness ==
    cyc[1].pc = "persist" /\ cyc[1].latest = 0 /\ cyc[1].number > 1

\* C5: while the latest episode is L > 0, a candidate L + 2 is held back (no
\* post, no row) in every cycle, however often it is reported; a candidate
\* L + 1 is New, and so is L + 2 once L + 1 has been stored
C5_GapWaits ==
    \A w \in Workers :
        LET c == cyc[w] IN
        Classified(w) =>
            LET L == LatestKnown(ShowOf(c)) IN
            L > 0 =>
               /\ c.number = L + 2 => (c.res = "skip" /\ c.episode_number_gap /\ c.pc # "publish")
               /\ c.number > L + 1 => <<ShowOf(c), c.number>> \in gapped
               /\ c.number = L + 1 => (c.res = "new" /\ c.pc \in {"publish", "persist"})

\* C5 witness: a number held back as a gap in the first cycle is posted and
\* stored in the second, after its predecessor
C5_Witness ==
    /\ ncycles = 2
    /\ cyc[1].res = "posted"
    /\ <<ShowOf(cyc[1]), cyc[1].number>> \in gapped
    /\ Len(persisted[ShowOf(cyc[1])]) = 2

\* a candidate of the second cycle that reached the novelty test
C6_Second(w) ==
    LET c == cyc[w] IN
    /\ c.pc \notin {"publish", "persist"}
    /\ c.res \in {"invalid", "skip", "new", "failed", "posted"} =>
          (c.res = "skip" /\ c.already_seen)

C7_Fails(w) == cyc[w].pc = "publish" /\ cyc'[w].pc # "persist"

C7_NothingStored(w) ==
    C7_Fails(w) =>
        /\ episodes' = episodes
        /\ delayed' = delayed
        /\ published' = published
        /\ cyc'[w].edited = <<>>

\* the candidate w has tested is the one whose post failed in the cycle before
C7_Again(w) ==
    /\ Classified(w)
    /\ cyc[w].number = lastFail[ShowOf(cyc[w])].number
    /\ ncycles = lastFail[ShowOf(cyc[w])].cycle + 1

\* the show's latest episode is the one the failed attempt read
C7_SameLatest(w) ==
    LatestKnown(ShowOf(cyc[w])) = lastFail[ShowOf(cyc[w])].latest

\* C7 as stated: a failed post stores no row, leaves the delayed flag and edits
\* nothing, and the candidate reported again in the next cycle is New again
C7_Original ==
    [][\A w \in Workers :
         /\ C7_NothingStored(w)
         /\ C7_Again(w)' => cyc'[w].res = "new"]_vars

\* C7 amended: the candidate is New again when the show's latest episode is
\* still the one the failed attempt read
C7_FailedPublish ==
    [][\A w \in Workers :
         /\ C7_NothingStored(w)
         /\ (C7_Again(w) /\ C7_SameLatest(w))' => cyc'[w].res = "new"]_vars

\* C7 witness: the candidate whose post failed in the first cycle is New in the
\* second and its post is out
C7_Witness == C7_Again(1) /\ cyc[1].pc = "persist" /\ episodes[ShowOf(cyc[1])] # {}

\* C8 as stated: a number posted without its row being stored is not posted
\* again by a later cycle
C8_NoRepost ==
    \A w \in Workers :
        cyc[w].pc = "persist" =>
            ~\E k \in 1..MaxCycles :
                k < ncycles /\ <<ShowOf(cyc[w]), cyc[w].number, k>> \in orphans

\* C9 as stated: two invocations at once never both post the same (show, number)
C9_NoDoublePost ==
    \A v, w \in Workers :
        (v # w /\ cyc[v].pc = "persist" /\ cyc[w].pc = "persist") =>
            <<ShowOf(cyc[v]), cyc[v].number>> # <<ShowOf(cyc[w]), cyc[w].number>>

\* the calls of get_recent_episodes a whole cycle makes
AllCalls ==
    { <<"direct", i>> : i \in 1..Len(enabled_services) } \cup
    { <<"generic", i>> : i \in { j \in 1..Len(enabled_services) : is_generic(enabled_services[j]) } }

\* C10 as stated: whatever fails, every other enabled service is still called
\* in the cycle
C10_Original ==
    \A w \in Workers : cyc[w].pc \in {"done", "aborted"} => cyc[w].visited = AllCalls

\* C10 amended: an IOError ends the service it came from and no other; any
\* other exception ends the cycle
C10_IOErrorIsolated ==
    \A w \in Workers :
        /\ cyc[w].exc = "IOError" => cyc[w].pc # "aborted"
        /\ cyc[w].pc = "done" => cyc[w].visited = AllCalls
        /\ cyc[w].pc = "aborted" => cyc[w].exc = "other"

\* C10 witness: after an IOError in the first loop the generic service posts
\* and stores an episode
C10_Witness ==
    /\ cyc[1].exc = "IOError"
    /\ cyc[1].pass = "generic"
    /\ cyc[1].res = "posted"
    /\ ncycles = 1

\* C11 as stated: when the read of the latest episode fails, the candidate is
\* given up, with no post and no row for it
C11_ReadErrorAbandons ==
    \A w \in Workers : cyc[w].db_exc => cyc[w].pc \notin {"publish", "persist"}

\* C12 as stated: a candidate dated at or before now goes on to the number
\* translation and the novelty test; one dated after now is neither posted nor
\* stored, whatever its number and the show's latest episode
C12_Freshness ==
    [][\A w \in Workers :
         (cyc[w].pc = "episodes" /\ cyc'[w] # cyc[w]) =>
            LET episode == FirstCand(cyc[w].pending)
                st == StreamById(cyc[w].stream)
            IN  IF episode.live
                THEN /\ cyc'[w].res \in {"invalid", "skip", "new"}
                     /\ cyc'[w].number = episode.number - st.remote_offset
                ELSE /\ cyc'[w].pc \notin {"publish", "persist"}
                     /\ episodes' = episodes
                     /\ published' = published]_vars

\* C13: for every stream and number x of the service, to_internal_episode gives
\* x - remote_offset, to_display_episode of that gives x - remote_offset +
\* display_offset, and neither call changes the number of the object it was given
C13_OffsetRoundTrip ==
    calc.op = "offsets" =>
        LET r == calc.stream.remote_offset
            d == calc.stream.display_offset
        IN  /\ calc.pc \in {"internal", "display"} =>
                 /\ calc.int_episode.number = calc.x - r
                 /\ calc.episode.number = calc.x
            /\ calc.pc = "display" =>
                 /\ calc.display_episode.number = (calc.x - r) + d
                 /\ calc.display_episode.number - calc.int_episode.number = d

\* C13 witness: both calls made with two different offsets, neither of them 0
C13_Witness ==
    /\ calc.op = "offsets"
    /\ calc.pc = "display"
    /\ calc.stream.remote_offset = 2
    /\ calc.stream.display_offset = -1
    /\ calc.x = 3
    /\ calc.display_episode.number = 0

C15_DisabledExcluded ==
    [][/\ \A w \in Workers :
            /\ \A id \in cyc'[w].todo : enabled[StreamById(id).show]
            /\ cyc'[w].pc \in {"episodes", "publish", "persist"} => enabled[ShowOf(cyc'[w])]
       /\ \A s \in Shows :
            ~enabled[s] => (published'[s] = published[s] /\ episodes'[s] = episodes[s])]_vars

\* C15 witness: show 2 is disabled and delayed; the generic handler has been
\* given the streams of the cycle and show 1 is being looked at
C15_Witness ==
    /\ ~enabled[2]
    /\ delayed[2]
    /\ cyc[1].pass = "generic"
    /\ cyc[1].pc = "episodes"
    /\ cyc[1].stream = -1

\* the generic handler is called by w in this step
C20_Handed(w) ==
    cyc[w].pc = "fetch" /\ cyc[w].pass = "generic" /\ cyc'[w].pc = "streams"

\* C20 as stated: the generic handler is given the streams derived from the
\* enabled shows without an active stream on an enabled service and from the
\* delayed shows, and from no other show
C20_Original ==
    [][\A w \in Workers :
         C20_Handed(w) =>
            cyc'[w].todo =
               { 0 - s : s \in { t \in Shows : enabled[t] /\ (t \in get_shows_missing_stream \/ delayed[t]) } }]_vars

\* C20 amended: the generic handler is given the streams derived from every
\* enabled show, with an active stream or without, delayed or not
C20_GenericStreams ==
    [][\A w \in Workers :
         C20_Handed(w) => cyc'[w].todo = { 0 - s : s \in { t \in Shows : enabled[t] } }]_vars

\* C20 witness: show 1 has an active stream and is not delayed, and the stream
\* derived from it is with the generic handler
C20_Witness ==
    /\ cyc[1].pass = "generic"
    /\ cyc[1].pc = "streams"
    /\ -1 \in cyc[1].todo
    /\ ~delayed[1]
    /\ \E st \in DbStreams : st.show = 1 /\ st.active

\* C16 as stated: an item that matches more than one show gives no episode to
\* any show
C16_AmbiguousDiscarded ==
    (calc.op = "match" /\ calc.pc = "done" /\ Len(calc.found_streams) > 1) =>
        DOMAIN calc.episodes = {}

\* the name forms of the specification: the name, the English name if there is
\* one, the aliases and the stream's key
C17_Forms(stream) ==
    {stream.show.name, stream.show_key}
       \cup { stream.show.aliases[i] : i \in 1..Len(stream.show.aliases) }
       \cup (IF stream.show.name_en # NoName THEN {stream.show.name_en} ELSE {})

\* C17 as stated: the item is matched with a show exactly when the words of one
\* of the show's name forms are all among the words of the title
C17_MatchIffSubset ==
    (calc.op = "match" /\ calc.pc \in {"found", "done"}) =>
        \A i \in 1..Len(calc.streams) :
            (\E j \in 1..Len(calc.found_streams) : calc.found_streams[j] = calc.streams[i])
               <=> \E form \in C17_Forms(calc.streams[i]) :
                      words(form) \subseteq words(calc.torrent.title)

\* C18: the Episodes table never holds two rows with one (show, number), also
\* after add_episode is called for a (show, number) that has a row
C18_OneRowPerEpisode ==
    calc.op = "table" =>
        \A i, j \in 1..Len(calc.rows) :
            (calc.rows[i].show = calc.rows[j].show /\ calc.rows[i].episode = calc.rows[j].episode)
               => i = j

\* C18 witness: add_episode was called twice for show 1, episode 1, with two
\* links: one row is left, with the second link
C18_Witness ==
    /\ calc.op = "table"
    /\ calc.calls = 2
    /\ calc.rows = <<[show |-> 1, episode |-> 1, post_url |-> "u2"]>>

\* C19 as stated: in one run no more than config.max_episodes threads are posted
\* for one show (here: in the first run, counting the threads whose row is stored)
C19_MaxEpisodes ==
    (calc.op = "config" /\ ncycles = 1) =>
        \A s \in Shows : Len(persisted[s]) <= calc.max_episodes

C22_CanonicalKeys ==
    calc.op = "render" =>
        /\ calc.compared \subseteq {calc.int_episode.number}
        /\ calc.looked_up \subseteq calc.rows \cup {calc.int_episode.number}
        /\ calc.stored \subseteq {calc.int_episode.number}
        /\ calc.pc = "done" =>
               calc.text = <<calc.int_episode.number + calc.stream.display_offset>>

\* C23 as stated: an entry whose episode number cannot be read is dropped:
\* whatever the offsets of the stream, nothing is posted and no row is stored
\* for it under any number
C23_UnparsedDropped ==
    (calc.op = "digest" /\ episode_count_fix(calc.field) = <<>>) =>
        /\ calc.res \notin {"posted"}
        /\ calc.rows \in InitEpisodes

\* C24: the Episode rows stored by the earlier posts of a cycle stay in the
\* Store whatever comes later in the cycle, an exception that ends the run and
\* the rollback of holo.main included
C24_EarlierRowsStay ==
    calc.op = "txn" =>
        \A i \in 1..Len(calc.added) : calc.added[i] \in calc.rows /\ calc.added[i] \in calc.disk

\* C24 witness: two rows were stored, then the module raised; the run was
\* rolled back and closed with both rows in the Store
C24_Witness ==
    /\ calc.op = "txn"
    /\ calc.pc = "closed"
    /\ calc.raised
    /\ Len(calc.added) = 2
    /\ calc.added[1] \in calc.disk
    /\ calc.added[2] \in calc.disk

C26_PostedOverFailed(w) ==
    /\ cyc[w].pc = "publish"
    /\ cyc'[w].pc = "persist"
    /\ lastFail[ShowOf(cyc[w])].number > 0
    /\ lastFail[ShowOf(cyc[w])].cycle = ncycles
    /\ lastFail[ShowOf(cyc[w])].stream = cyc[w].stream
    /\ cyc[w].number > lastFail[ShowOf(cyc[w])].number

\* C26 as stated: after the post of number n failed, no higher number of the
\* same report is posted for the show in that cycle, whatever the show's
\* latest episode
C26_Original == [][\A w \in Workers : ~C26_PostedOverFailed(w)]_vars

\* C26 amended: it is so when the show's latest episode is above 0
C26_NoSkipOverFailed ==
    [][\A w \in Workers :
         C26_PostedOverFailed(w) => ~(lastFail[ShowOf(cyc[w])].latest > 0)]_vars

\* C26 witness: the show's latest episode is above 0, the post of the next
\* number failed in this cycle, and the number after it, of the same report,
\* has been held back as a gap
C26_Witness ==
    /\ cyc[1].res = "skip"
    /\ cyc[1].episode_number_gap
    /\ lastFail[ShowOf(cyc[1])].latest > 0
    /\ lastFail[ShowOf(cyc[1])].cycle = ncycles
    /\ lastFail[ShowOf(cyc[1])].stream = cyc[1].stream
    /\ cyc[1].number = lastFail[ShowOf(cyc[1])].number + 1

\* C27 as stated: an item is given to a show only if its title has a word in
\* common with the show's name, one of its aliases or the key of the stream; a
\* name without words does not match every item
C27_SharesAWord ==
    (calc.op = "match" /\ calc.pc = "done") =>
        \A id \in DOMAIN calc.episodes :
            \E i \in 1..Len(calc.streams) :
                /\ calc.streams[i].id = id
                /\ \E j \in 1..Len(names(calc.streams[i])) :
                      words(names(calc.streams[i])[j]) \cap words(calc.torrent.title) # {}

\* C28 as stated: for a show whose length is known (above 0) no episode with
\* an internal number above the length is posted or stored
C28_WithinLength ==
    calc.op = "length" =>
        \A s \in Shows :
            calc.length[s] > 0 =>
                \A n \in 1..MaxNum :
                    n > calc.length[s] => (published[s][n] = 0 /\ n \notin episodes[s])

\* C29 as stated: when the edit fails on a document of the file, no change
\* made for the documents before it is left in the database
C29_AllOrNothing ==
    (calc.op = "edit" /\ calc.pc = "reverted") => (calc.disk = {} /\ calc.rows = {})

\* C30 as stated: after the edit of a stream that was registered already, its
\* stored remote_offset is the offset given after "|" in the URL, and 0 when
\* the URL has no "|"
C30_OffsetStored ==
    (calc.op = "editoffset" /\ calc.pc = "done") =>
        /\ calc.stored = calc.remote_offset
        /\ rfind(calc.url) = 0 => calc.stored = 0

====
